---- MODULE Spec2Model ----
(***************************************************************************)
(* Ricart-Agrawala distributed mutual exclusion as implemented by          *)
(* RicartAgrawalaMutex (dme_middleware.py) and driven by the chat shell    *)
(* (chat_app.py).  Every node runs one application thread (the command     *)
(* loop) and one handler thread per inbound frame; the steps below are the *)
(* stretches of code that run under one lock, so that every interleaving   *)
(* of the threads the locks allow is an interleaving of these actions.     *)
(***************************************************************************)
EXTENDS Integers, FiniteSets, Sequences, TLC

\* ---------------------------------------------------------------- bounds
\* posts (request_cs calls) each of two nodes issues during a run
MaxPosts == 2
\* posts each of nodes 1 and 2 issues when a third node listens
MaxPosts3 == 1
\* sends that may fail (connection refused / unreachable) during a run
MaxFail == 1
\* CS bodies that may raise during a run
MaxRaise == 1
\* largest timestamp of a frame that reaches a node from outside a run, and
\* largest timestamp of the request the node then has
MaxStamp == 2

\* ---------------------------------------------------------------- constants
\* node ids; their order is the lexicographic order of the id strings
AllNodes == {1, 2, 3}

STATE_RELEASED == "RELEASED"
STATE_WANTED == "WANTED"
STATE_HELD == "HELD"

\* our_request = None
None == <<0, 0>>

VARIABLES
    nodes,             \* the nodes started for this run (their node_id)
    logical_clock,     \* [node -> Nat]
    state,             \* [node -> STATE_*]
    our_request,       \* [node -> <<timestamp, node_id>> or None]
    replies_needed,    \* [node -> set of peer ids]
    deferred_replies,  \* [node -> set of peer ids]
    pc,                \* [node -> position of the application thread]
    todo,              \* [node -> peers the running for-loop has still to visit]
    net,               \* frames sent and not yet read by a handler
    handlers,          \* handler threads that have read their frame
    posts,             \* [node -> posts the user of the node has still to type]
    fails,             \* sends that failed so far
    raises,            \* CS bodies that raised so far
    round,             \* [node -> record of the current request round (history)]
    drained,           \* [node -> [peer -> REPLYs release_cs has sent it so far]]
    history,           \* the REPLY frames sent and not yet handled, each with
                       \* the timestamps of the REQUESTs it answers (history)
    deferred_req,      \* [node -> [peer -> timestamps of the REQUESTs of the peer
                       \*   that are deferred] (history)
    tally              \* [node -> what the node has read and written so far]
                       \* (history)

vars == <<nodes, logical_clock, state, our_request, replies_needed,
          deferred_replies, pc, todo, net, handlers, posts, fails, raises,
          round, drained, history, deferred_req, tally>>

\* self.peers of node n: every other started node
peers(n) == nodes \ {n}

\* tuple comparison of Python: (t1, id1) < (t2, id2)
ReqLess(a, b) == a[1] < b[1] \/ (a[1] = b[1] /\ a[2] < b[2])

\* the frame f"{msg_type}|{msg_timestamp}|{self.node_id}" on its way to a peer
Frame(type, ts, from, to) == [type |-> type, ts |-> ts, from |-> from, to |-> to]

\* outcomes of s.connect / s.sendall in _send_message
SendOutcomes == {"sent", "failed"}

\* outcomes of talk_to_server inside the CS body
ServerOutcomes == {"OK", "ERROR", "refused", "timeout"}

\* history of one request round: the request minted, the REQUEST frames handed
\* to _send_message (per peer: how many, with which timestamps), the peers the
\* send failed for, the peers whose handler has read the REQUEST while neither
\* side had reached HELD, whether the round has reached HELD, and the state request_cs
\* was called in
NoRound == [req |-> None, sends |-> [p \in AllNodes |-> 0], ts |-> {},
            refused |-> {}, rcvd |-> {}, held |-> FALSE,
            entry |-> STATE_RELEASED]

NoDrain == [p \in AllNodes |-> 0]

NoDeferred == [p \in AllNodes |-> {}]

\* the entry of a REPLY frame in the history
Sent(f, re) == [f |-> f, re |-> re]

\* what a node has done so far: the largest timestamp it has minted, read in a
\* frame or written into a frame, and per peer the REQUESTs and REPLYs it has
\* read from it and the REPLYs it has handed to _send_message for it
NoTally == [seen |-> 0, req_in |-> [p \in AllNodes |-> 0],
            rep_in |-> [p \in AllNodes |-> 0],
            rep_out |-> [p \in AllNodes |-> 0]]

Max(a, b) == IF a > b THEN a ELSE b

InitWith(N, clk, quota) ==
    /\ nodes = N
    /\ logical_clock = clk
    /\ state = [n \in AllNodes |-> STATE_RELEASED]
    /\ our_request = [n \in AllNodes |-> None]
    /\ replies_needed = [n \in AllNodes |-> {}]
    /\ deferred_replies = [n \in AllNodes |-> {}]
    /\ pc = [n \in AllNodes |-> "prompt"]
    /\ todo = [n \in AllNodes |-> {}]
    /\ net = {}
    /\ handlers = {}
    /\ posts = quota
    /\ fails = 0
    /\ raises = 0
    /\ round = [n \in AllNodes |-> NoRound]
    /\ drained = [n \in AllNodes |-> NoDrain]
    /\ history = {}
    /\ deferred_req = [n \in AllNodes |-> NoDeferred]
    /\ tally = [n \in AllNodes |-> NoTally]

\* the users of nodes 1 and 2 post k times each
Quota(k) == [n \in AllNodes |-> IF n \in {1, 2} THEN k ELSE 0]

\* RicartAgrawalaMutex.__init__ on each of two nodes: clock 0, RELEASED, nothing
\* outstanding
Init == InitWith({1, 2}, [n \in AllNodes |-> 0], Quota(MaxPosts))

\* the same on three nodes, of which the third only listens
Init3 == InitWith(AllNodes, [n \in AllNodes |-> 0], Quota(MaxPosts3))

\* Scenario S4, three nodes posting: node 3 has posted once before (request
\* (1,3), answered by nodes 1 and 2 with REPLYs stamped 3 and 5, entered and
\* released); then node 2 mints (3,2), node 1 mints (5,1) after reading the
\* REQUEST of node 2, node 3 mints (7,3), and all three have broadcast.  Nobody
\* has answered or entered yet.
\* The state is reached from three freshly constructed nodes in 37 steps of
\* Post, Mint, SetReplies, Broadcast, Receive, Snapshot, ReplyNow, TakeReply,
\* Poll, Grant, Body, Release, LockDeferred and Clear.
InitS4 ==
    /\ nodes = AllNodes
    /\ logical_clock = <<7, 6, 9>>
    /\ state = [n \in AllNodes |-> STATE_WANTED]
    /\ our_request = <<(<<5, 1>>), (<<3, 2>>), (<<7, 3>>)>>
    /\ replies_needed = [n \in AllNodes |-> AllNodes \ {n}]
    /\ deferred_replies = [n \in AllNodes |-> {}]
    /\ pc = [n \in AllNodes |-> "bcast"]
    /\ todo = [n \in AllNodes |-> {}]
    /\ net = {[type |-> "REQUEST", ts |-> 3, from |-> 2, to |-> 3],
              [type |-> "REQUEST", ts |-> 5, from |-> 1, to |-> 2],
              [type |-> "REQUEST", ts |-> 5, from |-> 1, to |-> 3],
              [type |-> "REQUEST", ts |-> 7, from |-> 3, to |-> 1],
              [type |-> "REQUEST", ts |-> 7, from |-> 3, to |-> 2]}
    /\ handlers = {[at |-> 1, type |-> "REQUEST", ts |-> 3, from |-> 2,
                    step |-> "read", ms |-> STATE_RELEASED, mr |-> None]}
    /\ posts = [n \in AllNodes |-> 0]
    /\ fails = 0
    /\ raises = 0
    /\ round = [n \in AllNodes |->
                 [NoRound EXCEPT
                     !.req = our_request[n],
                     !.ts = {our_request[n][1]},
                     !.sends = [p \in AllNodes |-> IF p = n THEN 0 ELSE 1],
                     !.rcvd = IF n = 2 THEN {1} ELSE {}]]
    /\ drained = [n \in AllNodes |-> NoDrain]
    /\ history = {}
    /\ deferred_req = [n \in AllNodes |-> NoDeferred]
    /\ tally = <<[seen |-> 5, req_in |-> <<0, 1, 1>>, rep_in |-> <<0, 0, 0>>,
                  rep_out |-> <<0, 0, 1>>],
                 [seen |-> 5, req_in |-> <<0, 0, 1>>, rep_in |-> <<0, 0, 0>>,
                  rep_out |-> <<0, 0, 1>>],
                 [seen |-> 7, req_in |-> <<0, 0, 0>>, rep_in |-> <<1, 1, 0>>,
                  rep_out |-> <<0, 0, 0>>]>>

\* A node of three at any point of its life when a REPLY frame reaches its
\* listener from a peer that is not answering a REQUEST of the current round:
\* the listener accepts every connection and the handler every well-formed
\* frame, whoever wrote it (a peer that was restarted, a frame typed by hand).
\* The node is RELEASED (a deferral may have been left behind), WANTED before
\* or after its request is minted, or HELD.
InitFrames ==
    \E n \in AllNodes, p \in AllNodes, t \in 0 .. MaxStamp, ts \in 1 .. MaxStamp + 1,
       st \in {STATE_RELEASED, STATE_WANTED, STATE_HELD},
       rn \in SUBSET AllNodes, df \in SUBSET AllNodes :
       /\ p # n /\ n \notin rn /\ n \notin df
       /\ st = STATE_RELEASED => (t = 0 /\ rn = {})
       /\ st = STATE_HELD => (t # 0 /\ rn = {})
       /\ t = 0 => rn = {}
       /\ nodes = AllNodes
       /\ logical_clock = [m \in AllNodes |->
                             IF m = n THEN MaxStamp ELSE IF m = p THEN ts ELSE 0]
       /\ state = [m \in AllNodes |-> IF m = n THEN st ELSE STATE_RELEASED]
       /\ our_request = [m \in AllNodes |->
                           IF m = n /\ t # 0 THEN <<t, n>> ELSE None]
       /\ replies_needed = [m \in AllNodes |-> IF m = n THEN rn ELSE {}]
       /\ deferred_replies = [m \in AllNodes |-> IF m = n THEN df ELSE {}]
       /\ pc = [m \in AllNodes |->
                  IF m # n \/ st = STATE_RELEASED THEN "prompt"
                  ELSE IF st = STATE_HELD THEN "cs"
                  ELSE IF t = 0 THEN "mint" ELSE "bcast"]
       /\ todo = [m \in AllNodes |-> {}]
       /\ net = {Frame("REPLY", ts, p, n)}
       /\ handlers = {}
       /\ posts = Quota(0)
       /\ fails = 0
       /\ raises = 0
       /\ round = [m \in AllNodes |->
                     IF m = n THEN [NoRound EXCEPT !.req = our_request[n],
                                                   !.held = (st = STATE_HELD)]
                     ELSE NoRound]
       /\ drained = [m \in AllNodes |-> NoDrain]
       /\ history = {}
       /\ deferred_req = [m \in AllNodes |-> NoDeferred]
       /\ tally = [m \in AllNodes |-> NoTally]

\* ------------------------------------------------------------ _send_message
\* The clock tick of a send and the timestamp the frame carries.
\* the send does not tick the clock
SendClock_NoTick(n) == logical_clock[n]

SendClock(n) == logical_clock[n] + 1

\* the frame is stamped with the clock although a timestamp was given
MsgTimestamp_Clock(n, timestamp) == SendClock(n)

MsgTimestamp(n, timestamp) == IF timestamp # 0 THEN timestamp ELSE SendClock(n)

\* _send_message(target, msg_type, timestamp): unknown target: nothing at all;
\* else the clock ticks and the frame reaches the network unless the send fails.
Send(n, target, type, timestamp, outcome) ==
    IF target \notin peers(n)
    THEN UNCHANGED <<logical_clock, net, fails>>
    ELSE /\ logical_clock' = [logical_clock EXCEPT ![n] = SendClock(n)]
         /\ IF outcome = "sent"
            THEN /\ net' = net \cup {Frame(type, MsgTimestamp(n, timestamp), n, target)}
                 /\ UNCHANGED fails
            ELSE /\ fails < MaxFail
                 /\ fails' = fails + 1
                 /\ UNCHANGED net

\* ---------------------------------------------------------------- request_cs
\* `post <text>` at the prompt: handle_post calls request_cs, whose first step
\* sets state = WANTED under the state lock.
Post(n) ==
    /\ n \in nodes
    /\ pc[n] = "prompt"
    /\ posts[n] > 0
    /\ posts' = [posts EXCEPT ![n] = @ - 1]
    /\ state' = [state EXCEPT ![n] = STATE_WANTED]
    /\ pc' = [pc EXCEPT ![n] = "mint"]
    /\ round' = [round EXCEPT ![n] = [NoRound EXCEPT !.entry = state[n]]]
    /\ UNCHANGED <<nodes, logical_clock, our_request, replies_needed,
                   deferred_replies, todo, net, handlers, fails, raises, drained,
                   history, deferred_req, tally>>

\* the request is stamped with the clock as it is, without the tick
Mint_NoTick(n) ==
    /\ pc[n] = "mint"
    /\ our_request' = [our_request EXCEPT ![n] = <<logical_clock[n], n>>]
    /\ round' = [round EXCEPT ![n].req = <<logical_clock[n], n>>]
    /\ tally' = [tally EXCEPT ![n].seen = Max(@, logical_clock[n])]
    /\ pc' = [pc EXCEPT ![n] = "need"]
    /\ UNCHANGED <<nodes, logical_clock, state, replies_needed, deferred_replies,
                   todo, net, handlers, posts, fails, raises, drained,
                   history, deferred_req>>

\* under the clock lock: clock += 1; our_request = (clock, node_id)
Mint(n) ==
    /\ pc[n] = "mint"
    /\ logical_clock' = [logical_clock EXCEPT ![n] = @ + 1]
    /\ our_request' = [our_request EXCEPT ![n] = <<logical_clock[n] + 1, n>>]
    /\ round' = [round EXCEPT ![n].req = <<logical_clock[n] + 1, n>>]
    /\ tally' = [tally EXCEPT ![n].seen = Max(@, logical_clock[n] + 1)]
    /\ pc' = [pc EXCEPT ![n] = "need"]
    /\ UNCHANGED <<nodes, state, replies_needed, deferred_replies, todo, net,
                   handlers, posts, fails, raises, drained,
                   history, deferred_req>>

\* under the replies lock: replies_needed = set(peers); the broadcast loop starts
SetReplies(n) ==
    /\ pc[n] = "need"
    /\ replies_needed' = [replies_needed EXCEPT ![n] = peers(n)]
    /\ todo' = [todo EXCEPT ![n] = peers(n)]
    /\ pc' = [pc EXCEPT ![n] = "bcast"]
    /\ UNCHANGED <<nodes, logical_clock, state, our_request, deferred_replies,
                   net, handlers, posts, fails, raises, round, drained,
                   history, deferred_req, tally>>

\* a failed send leaves the peer in the loop: the REQUEST is sent again
Broadcast_Retry(n, outcomes) ==
    /\ pc[n] = "bcast"
    /\ \E p \in todo[n], outcome \in outcomes :
          /\ Send(n, p, "REQUEST", our_request[n][1], outcome)
          /\ todo' = [todo EXCEPT ![n] = IF outcome = "failed" THEN @ ELSE @ \ {p}]
          /\ round' = [round EXCEPT
                 ![n].sends[p] = @ + 1,
                 ![n].ts = @ \cup {MsgTimestamp(n, our_request[n][1])},
                 ![n].refused = IF outcome = "failed" THEN @ \cup {p} ELSE @]
    /\ tally' = [tally EXCEPT
             ![n].seen = Max(@, MsgTimestamp(n, our_request[n][1]))]
    /\ UNCHANGED <<nodes, state, our_request, replies_needed, deferred_replies,
                   pc, handlers, posts, raises, drained, history, deferred_req>>

\* one turn of `for peer_id in self.peers`: _send_message(peer, "REQUEST", our_request[0])
Broadcast(n, outcomes) ==
    /\ pc[n] = "bcast"
    /\ \E p \in todo[n], outcome \in outcomes :
          /\ Send(n, p, "REQUEST", our_request[n][1], outcome)
          /\ todo' = [todo EXCEPT ![n] = @ \ {p}]
          /\ round' = [round EXCEPT
                 ![n].sends[p] = @ + 1,
                 ![n].ts = @ \cup {MsgTimestamp(n, our_request[n][1])},
                 ![n].refused = IF outcome = "failed" THEN @ \cup {p} ELSE @]
    /\ tally' = [tally EXCEPT
             ![n].seen = Max(@, MsgTimestamp(n, our_request[n][1]))]
    /\ UNCHANGED <<nodes, state, our_request, replies_needed, deferred_replies,
                   pc, handlers, posts, raises, drained, history, deferred_req>>

\* the polling loop, seen when it finds replies_needed empty (the broadcast is over)
\* the test of the wait is inverted: it is left while replies are awaited
AllReplied_Inverted(n) == replies_needed[n] # {}

AllReplied(n) == replies_needed[n] = {}

\* the polling loop is left out: request_cs goes on once the broadcast is over
Poll_NoWait(n) ==
    /\ pc[n] = "bcast"
    /\ todo[n] = {}
    /\ pc' = [pc EXCEPT ![n] = "grant"]
    /\ UNCHANGED <<nodes, logical_clock, state, our_request, replies_needed,
                   deferred_replies, todo, net, handlers, posts, fails, raises,
                   round, drained,
                   history, deferred_req, tally>>

Poll(n) ==
    /\ pc[n] = "bcast"
    /\ todo[n] = {}
    /\ AllReplied(n)
    /\ pc' = [pc EXCEPT ![n] = "grant"]
    /\ UNCHANGED <<nodes, logical_clock, state, our_request, replies_needed,
                   deferred_replies, todo, net, handlers, posts, fails, raises,
                   round, drained,
                   history, deferred_req, tally>>

\* under the state lock: state = HELD; request_cs returns into the CS body
Grant(n) ==
    /\ pc[n] = "grant"
    /\ state' = [state EXCEPT ![n] = STATE_HELD]
    /\ round' = [round EXCEPT ![n].held = TRUE]
    /\ pc' = [pc EXCEPT ![n] = "cs"]
    /\ UNCHANGED <<nodes, logical_clock, our_request, replies_needed,
                   deferred_replies, todo, net, handlers, posts, fails, raises,
                   drained,
                   history, deferred_req, tally>>

\* ---------------------------------------------------------------- handle_post
\* the CS body: the line is posted to the file server, whatever it answers
\* (talk_to_server turns every failure into an "ERROR: ..." string), then the
\* two-second hold; release_cs is called next
Body(n) ==
    /\ pc[n] = "cs"
    /\ \E response \in ServerOutcomes : pc' = [pc EXCEPT ![n] = "release"]
    /\ UNCHANGED <<nodes, logical_clock, state, our_request, replies_needed,
                   deferred_replies, todo, net, handlers, posts, fails, raises,
                   round, drained,
                   history, deferred_req, tally>>

\* a statement of the CS body raises (print on a closed or non-encoding stdout):
\* handle_post is left, main's `except Exception` reports it and prompts again
BodyRaise(n) ==
    /\ pc[n] = "cs"
    /\ raises < MaxRaise
    /\ raises' = raises + 1
    /\ pc' = [pc EXCEPT ![n] = "prompt"]
    /\ UNCHANGED <<nodes, logical_clock, state, our_request, replies_needed,
                   deferred_replies, todo, net, handlers, posts, fails, round,
                   drained,
                   history, deferred_req, tally>>

\* ---------------------------------------------------------------- release_cs
\* under the state lock: state = RELEASED; our_request = None
Release(n) ==
    /\ pc[n] = "release"
    /\ state' = [state EXCEPT ![n] = STATE_RELEASED]
    /\ our_request' = [our_request EXCEPT ![n] = None]
    /\ pc' = [pc EXCEPT ![n] = "lock"]
    /\ UNCHANGED <<nodes, logical_clock, replies_needed, deferred_replies, todo,
                   net, handlers, posts, fails, raises, round, drained,
                   history, deferred_req, tally>>

\* `with self.deferred_lock:` is entered; the loop over deferred_replies starts
LockDeferred(n) ==
    /\ pc[n] = "lock"
    /\ todo' = [todo EXCEPT ![n] = deferred_replies[n]]
    /\ drained' = [drained EXCEPT ![n] = NoDrain]
    /\ pc' = [pc EXCEPT ![n] = "drain"]
    /\ UNCHANGED <<nodes, logical_clock, state, our_request, replies_needed,
                   deferred_replies, net, handlers, posts, fails, raises, round,
                   history, deferred_req, tally>>

\* the deferred lock of n is held by its release_cs
DeferredLocked(n) == pc[n] = "drain"

\* one turn of `for peer_id in self.deferred_replies`: _send_message(peer, "REPLY")
Drain(n, outcomes) ==
    /\ pc[n] = "drain"
    /\ \E p \in todo[n], outcome \in outcomes :
          /\ Send(n, p, "REPLY", 0, outcome)
          /\ todo' = [todo EXCEPT ![n] = @ \ {p}]
          /\ drained' = [drained EXCEPT ![n][p] = @ + 1]
          /\ history' = history \cup
                 {Sent(f, deferred_req[n][p]) : f \in net' \ net}
          /\ tally' = [tally EXCEPT ![n].seen = Max(@, MsgTimestamp(n, 0)),
                                    ![n].rep_out[p] = @ + 1]
    /\ UNCHANGED <<nodes, state, our_request, replies_needed, deferred_replies,
                   pc, handlers, posts, raises, round, deferred_req>>

\* deferred_replies.clear() is left out
Clear_NoClear(n) ==
    /\ pc[n] = "drain"
    /\ todo[n] = {}
    /\ drained' = [drained EXCEPT ![n] = NoDrain]
    /\ pc' = [pc EXCEPT ![n] = "prompt"]
    /\ UNCHANGED <<nodes, logical_clock, state, our_request, replies_needed,
                   deferred_replies, todo, net, handlers, posts, fails, raises,
                   round,
                   history, deferred_req, tally>>

\* deferred_replies.clear(), the lock is left, release_cs and handle_post return
Clear(n) ==
    /\ pc[n] = "drain"
    /\ todo[n] = {}
    /\ deferred_replies' = [deferred_replies EXCEPT ![n] = {}]
    /\ deferred_req' = [deferred_req EXCEPT ![n] = NoDeferred]
    /\ drained' = [drained EXCEPT ![n] = NoDrain]
    /\ pc' = [pc EXCEPT ![n] = "prompt"]
    /\ UNCHANGED <<nodes, logical_clock, state, our_request, replies_needed,
                   todo, net, handlers, posts, fails, raises, round, history,
                   tally>>

\* ------------------------------------------------------- _handle_dme_message
\* the tick after the max is left out
ReceiveClock_NoTick(clock, timestamp) ==
    IF clock > timestamp THEN clock ELSE timestamp

\* clock = max(clock, timestamp) + 1
ReceiveClock(clock, timestamp) ==
    (IF clock > timestamp THEN clock ELSE timestamp) + 1

\* a handler thread: the frame it read and how far it got
Handler(f, step, ms, mr) ==
    [at |-> f.to, type |-> f.type, ts |-> f.ts, from |-> f.from,
     step |-> step, ms |-> ms, mr |-> mr]

\* the connection is accepted, the frame read and parsed, and the clock updated
\* under the clock lock
Receive ==
    \E f \in net :
       /\ net' = net \ {f}
       /\ logical_clock' = [logical_clock EXCEPT
                               ![f.to] = ReceiveClock(logical_clock[f.to], f.ts)]
       /\ handlers' = handlers \cup {Handler(f, "read", STATE_RELEASED, None)}
       /\ round' = IF /\ f.type = "REQUEST"
                      /\ state[f.to] # STATE_HELD /\ ~round[f.to].held
                      /\ state[f.from] # STATE_HELD /\ ~round[f.from].held
                   THEN [round EXCEPT ![f.from].rcvd = @ \cup {f.to}]
                   ELSE round
       /\ tally' = [tally EXCEPT
                ![f.to].seen = Max(@, f.ts),
                ![f.to].req_in[f.from] = IF f.type = "REQUEST" THEN @ + 1 ELSE @,
                ![f.to].rep_in[f.from] = IF f.type = "REPLY" THEN @ + 1 ELSE @]
       /\ UNCHANGED <<nodes, state, our_request, replies_needed,
                      deferred_replies, pc, todo, posts, fails, raises, drained,
                      history, deferred_req>>

\* REQUEST: under the state lock, my_state = self.state; my_req = self.our_request
Snapshot ==
    \E h \in handlers :
       /\ h.type = "REQUEST"
       /\ h.step = "read"
       /\ handlers' = (handlers \ {h}) \cup
              {[h EXCEPT !.step = "decide", !.ms = state[h.at],
                         !.mr = our_request[h.at]]}
       /\ UNCHANGED <<nodes, logical_clock, state, our_request, replies_needed,
                      deferred_replies, pc, todo, net, posts, fails, raises,
                      round, drained,
                      history, deferred_req, tally>>

\* the comparison is the wrong way round
ShouldDefer_Reversed(ms, mr, sender_req) ==
    ms = STATE_HELD \/ (ms = STATE_WANTED /\ ReqLess(sender_req, mr))

\* the HELD case is forgotten
ShouldDefer_WantedOnly(ms, mr, sender_req) ==
    ms = STATE_WANTED /\ ReqLess(mr, sender_req)

\* my_state == HELD or (my_state == WANTED and my_req < sender_req)
ShouldDefer(ms, mr, sender_req) ==
    ms = STATE_HELD \/ (ms = STATE_WANTED /\ ReqLess(mr, sender_req))

\* the comparison my_req < sender_req is evaluated with my_req = None: TypeError
Raises(ms, mr) == ms # STATE_HELD /\ ms = STATE_WANTED /\ mr = None

\* the TypeError is caught by `except Exception`, logged, and the handler ends:
\* the REQUEST is neither deferred nor answered
HandlerError ==
    \E h \in handlers :
       /\ h.type = "REQUEST"
       /\ h.step = "decide"
       /\ Raises(h.ms, h.mr)
       /\ handlers' = handlers \ {h}
       /\ UNCHANGED <<nodes, logical_clock, state, our_request, replies_needed,
                      deferred_replies, pc, todo, net, posts, fails, raises,
                      round, drained,
                      history, deferred_req, tally>>

\* under the deferred lock: deferred_replies.add(sender_id)
Defer ==
    \E h \in handlers :
       /\ h.type = "REQUEST"
       /\ h.step = "decide"
       /\ ~Raises(h.ms, h.mr)
       /\ ShouldDefer(h.ms, h.mr, <<h.ts, h.from>>)
       /\ ~DeferredLocked(h.at)
       /\ deferred_replies' = [deferred_replies EXCEPT ![h.at] = @ \cup {h.from}]
       /\ deferred_req' = [deferred_req EXCEPT ![h.at][h.from] = @ \cup {h.ts}]
       /\ handlers' = handlers \ {h}
       /\ UNCHANGED <<nodes, logical_clock, state, our_request, replies_needed,
                      pc, todo, net, posts, fails, raises, round, drained,
                      history, tally>>

\* the sender is answered at once and deferred as well
ReplyNow_AlsoDefer(outcomes) ==
    \E h \in handlers, outcome \in outcomes :
       /\ h.type = "REQUEST"
       /\ h.step = "decide"
       /\ ~Raises(h.ms, h.mr)
       /\ ~ShouldDefer(h.ms, h.mr, <<h.ts, h.from>>)
       /\ Send(h.at, h.from, "REPLY", 0, outcome)
       /\ history' = history \cup {Sent(f, {h.ts}) : f \in net' \ net}
       /\ tally' = [tally EXCEPT ![h.at].seen = Max(@, MsgTimestamp(h.at, 0)),
                                 ![h.at].rep_out[h.from] = @ + 1]
       /\ deferred_replies' = [deferred_replies EXCEPT ![h.at] = @ \cup {h.from}]
       /\ deferred_req' = [deferred_req EXCEPT ![h.at][h.from] = @ \cup {h.ts}]
       /\ handlers' = handlers \ {h}
       /\ UNCHANGED <<nodes, state, our_request, replies_needed,
                      pc, todo, posts, raises, round, drained>>

\* else: self._send_message(sender_id, "REPLY")
ReplyNow(outcomes) ==
    \E h \in handlers, outcome \in outcomes :
       /\ h.type = "REQUEST"
       /\ h.step = "decide"
       /\ ~Raises(h.ms, h.mr)
       /\ ~ShouldDefer(h.ms, h.mr, <<h.ts, h.from>>)
       /\ Send(h.at, h.from, "REPLY", 0, outcome)
       /\ history' = history \cup {Sent(f, {h.ts}) : f \in net' \ net}
       /\ tally' = [tally EXCEPT ![h.at].seen = Max(@, MsgTimestamp(h.at, 0)),
                                 ![h.at].rep_out[h.from] = @ + 1]
       /\ handlers' = handlers \ {h}
       /\ UNCHANGED <<nodes, state, our_request, replies_needed,
                      deferred_replies, pc, todo, posts, raises, round, drained,
                      deferred_req>>

\* every REPLY empties replies_needed
TakeReply_Clear ==
    \E h \in handlers :
       /\ h.type = "REPLY"
       /\ h.step = "read"
       /\ replies_needed' = [replies_needed EXCEPT ![h.at] = {}]
       /\ handlers' = handlers \ {h}
       /\ history' = {e \in history : e.f # Frame(h.type, h.ts, h.from, h.at)}
       /\ UNCHANGED <<nodes, logical_clock, state, our_request,
                      deferred_replies, pc, todo, net, posts, fails, raises,
                      round, drained, deferred_req, tally>>

\* REPLY: under the replies lock, the sender leaves replies_needed if it is there
TakeReply ==
    \E h \in handlers :
       /\ h.type = "REPLY"
       /\ h.step = "read"
       /\ replies_needed' = [replies_needed EXCEPT ![h.at] = @ \ {h.from}]
       /\ handlers' = handlers \ {h}
       /\ history' = {e \in history : e.f # Frame(h.type, h.ts, h.from, h.at)}
       /\ UNCHANGED <<nodes, logical_clock, state, our_request,
                      deferred_replies, pc, todo, net, posts, fails, raises,
                      round, drained, deferred_req, tally>>

\* ------------------------------------------------------------ specifications
App(n) ==
    \/ Post(n)
    \/ Mint(n)
    \/ SetReplies(n)
    \/ Poll(n)
    \/ Grant(n)
    \/ Body(n)
    \/ Release(n)
    \/ LockDeferred(n)
    \/ Clear(n)

Next ==
    \/ \E n \in AllNodes : App(n)
    \/ \E n \in AllNodes : Broadcast(n, SendOutcomes)
    \/ \E n \in AllNodes : Drain(n, SendOutcomes)
    \/ \E n \in AllNodes : BodyRaise(n)
    \/ Receive
    \/ Snapshot
    \/ HandlerError
    \/ Defer
    \/ ReplyNow(SendOutcomes)
    \/ TakeReply

Spec == Init /\ [][Next]_vars

\* two nodes, three nodes, and the three posting nodes of scenario S4
Spec3 == (Init \/ Init3 \/ InitS4) /\ [][Next]_vars

\* the handling of one REPLY frame that reaches a node from outside a run
SpecFrames == InitFrames /\ [][Receive \/ TakeReply]_vars

\* Crash-free runs: every send succeeds and every CS body runs to its
\* release_cs; every thread that can take a step eventually takes one.
LiveNext ==
    \/ \E n \in AllNodes : App(n)
    \/ \E n \in AllNodes : Broadcast(n, {"sent"})
    \/ \E n \in AllNodes : Drain(n, {"sent"})
    \/ Receive
    \/ Snapshot
    \/ HandlerError
    \/ Defer
    \/ ReplyNow({"sent"})
    \/ TakeReply

LiveSpec ==
    /\ Init
    /\ [][LiveNext]_vars
    /\ \A n \in AllNodes :
          /\ WF_vars(App(n))
          /\ WF_vars(Broadcast(n, {"sent"}))
          /\ WF_vars(Drain(n, {"sent"}))
    /\ WF_vars(Receive)
    /\ WF_vars(Snapshot)
    /\ WF_vars(HandlerError)
    /\ WF_vars(Defer)
    /\ WF_vars(ReplyNow({"sent"}))
    /\ WF_vars(TakeReply)

\* ------------------------------------------------------------------ claims

\* C1: mutual exclusion: in every reachable state at most one node has
\* state = HELD.
C1_MutualExclusion ==
    \A a \in nodes, b \in nodes :
       (state[a] = STATE_HELD /\ state[b] = STATE_HELD) => a = b

\* a node is HELD while a peer that wants the CS waits for its deferred REPLY
C1_Witness ==
    \E a \in nodes, b \in nodes :
       /\ state[a] = STATE_HELD
       /\ state[b] = STATE_WANTED
       /\ b \in deferred_replies[a]
       /\ a \in replies_needed[b]

\* C3: when request_cs, called in state RELEASED, has returned (the application
\* thread is in the CS body), state is HELD, replies_needed is empty and
\* our_request is (t, node_id), t being the timestamp of every REQUEST frame
\* of the round, one frame per peer.
C3_RequestPostcondition ==
    \A n \in nodes :
       (pc[n] = "cs" /\ round[n].entry = STATE_RELEASED) =>
          /\ state[n] = STATE_HELD
          /\ replies_needed[n] = {}
          /\ our_request[n] # None
          /\ our_request[n][2] = n
          /\ our_request[n] = round[n].req
          /\ \A t \in round[n].ts : t = our_request[n][1]
          /\ \A p \in peers(n) : round[n].sends[p] = 1

\* request_cs has returned on a node that has peers and broadcast to them
C3_Witness ==
    \E n \in nodes :
       /\ pc[n] = "cs"
       /\ round[n].entry = STATE_RELEASED
       /\ peers(n) # {}
       /\ round[n].ts = {our_request[n][1]}
       /\ \A p \in peers(n) : round[n].sends[p] = 1

\* C2: crash-free liveness: every request_cs eventually returns, that is a node
\* that is WANTED eventually is HELD.
C2_EveryRequestGranted ==
    \A n \in AllNodes : (state[n] = STATE_WANTED) ~> (state[n] = STATE_HELD)

\* C4: when release_cs, called in state HELD, returns, state is RELEASED,
\* our_request is absent, deferred_replies is empty, and _send_message(peer,
\* "REPLY") has run exactly once for every peer that was in deferred_replies
\* and for no other peer.
C4_ReleasePostcondition ==
    [][\A n \in nodes :
          (pc[n] = "drain" /\ pc'[n] = "prompt") =>
             /\ state'[n] = STATE_RELEASED
             /\ our_request'[n] = None
             /\ deferred_replies'[n] = {}
             /\ \A p \in AllNodes :
                   drained[n][p] = IF p \in deferred_replies[n] THEN 1 ELSE 0]_vars

\* a release_cs is about to return after it has sent a deferred REPLY
C4_Witness ==
    \E n \in nodes :
       /\ pc[n] = "drain"
       /\ todo[n] = {}
       /\ deferred_replies[n] # {}
       /\ \A p \in deferred_replies[n] : drained[n][p] = 1

\* a and b have outstanding requests with p_a < p_b, each has read the REQUEST
\* of the other before either reached HELD, and a has not reached HELD yet:
\* then b is not HELD
PairwisePriority ==
    \A a \in nodes, b \in nodes :
       (/\ a # b
        /\ round[a].req # None /\ round[b].req # None
        /\ ReqLess(round[a].req, round[b].req)
        /\ b \in round[a].rcvd /\ a \in round[b].rcvd
        /\ ~round[a].held)
       => (state[b] # STATE_HELD /\ ~round[b].held)

\* scenario S4: requests (5,1), (3,2), (7,3), every REQUEST read by its peer
\* before any entry
S4AllDelivered ==
    /\ nodes = AllNodes
    /\ round[1].req = <<5, 1>> /\ round[2].req = <<3, 2>> /\ round[3].req = <<7, 3>>
    /\ \A n \in nodes : round[n].rcvd = peers(n)

\* C5: priority ordering.  Of two nodes that have read each other's REQUEST
\* before either entered, the one with the greater (timestamp, node_id) is not
\* HELD before the other has been; in scenario S4 node 1 has entered only if
\* node 2 has, and node 3 only if node 1 has (order of entries 2, 1, 3).
C5_PriorityOrder ==
    /\ PairwisePriority
    /\ S4AllDelivered =>
          /\ round[1].held => round[2].held
          /\ round[3].held => round[1].held

\* scenario S4, every REQUEST read before any entry: node 3 has entered last
C5_Witness ==
    /\ S4AllDelivered
    /\ state[3] = STATE_HELD
    /\ round[1].held /\ round[2].held

\* C6: the only state transitions are RELEASED->WANTED, WANTED->HELD and
\* HELD->RELEASED: a request_cs outside RELEASED or a release_cs outside HELD
\* changes nothing.
C6_OnlyLegalTransitions ==
    [][\A n \in nodes :
          state'[n] # state[n] =>
             <<state[n], state'[n]>> \in
                {<<STATE_RELEASED, STATE_WANTED>>, <<STATE_WANTED, STATE_HELD>>,
                 <<STATE_HELD, STATE_RELEASED>>}]_vars

\* a peer the REQUEST of the round could not be sent to: the REQUEST was handed
\* to _send_message once, the node is WANTED, waits in request_cs and still
\* awaits the peer
Blocked ==
    \A n \in nodes : \A p \in round[n].refused :
       /\ round[n].sends[p] = 1
       /\ state[n] = STATE_WANTED
       /\ pc[n] = "bcast"
       /\ p \in replies_needed[n]

\* a step in which a send fails changes the clock of one node by one tick and
\* nothing else of the protocol state
FailureFrame ==
    fails' # fails =>
       /\ UNCHANGED <<state, our_request, replies_needed, deferred_replies, net>>
       /\ \E n \in nodes :
             logical_clock' = [logical_clock EXCEPT ![n] = @ + 1]

\* C7: no retry on send failure: once the send of the REQUEST to a peer has
\* failed in a round, the REQUEST is not sent to it again, the node stays WANTED
\* with the peer in replies_needed and never becomes HELD; the failing send
\* changes nothing but the clock tick.
C7_NoRetry == []Blocked /\ [][FailureFrame]_vars

\* the REQUEST to one peer failed, every other peer has replied, and nothing is
\* left to happen for the requester
C7_Witness ==
    \E n \in nodes : \E p \in round[n].refused :
       /\ Cardinality(peers(n)) = 2
       /\ replies_needed[n] = {p}
       /\ todo[n] = {}
       /\ net = {}
       /\ handlers = {}

\* C8: the application thread is never back at the prompt with state = HELD.
C8_ReleasedAtPrompt ==
    \A n \in nodes : pc[n] = "prompt" => state[n] # STATE_HELD

\* C9: our_request is present exactly when state is WANTED or HELD.
C9_OurRequestDefined ==
    \A n \in nodes :
       (our_request[n] # None) <=> (state[n] \in {STATE_WANTED, STATE_HELD})

\* C10: replies_needed is non-empty only while state = WANTED.
C10_RepliesOnlyWanted ==
    \A n \in nodes :
       state[n] \in {STATE_HELD, STATE_RELEASED} => replies_needed[n] = {}

\* a node waits in WANTED for a reply, and a node has gone through HELD to
\* RELEASED with nothing awaited
C10_Witness ==
    \E a \in nodes, b \in nodes :
       /\ state[a] = STATE_WANTED /\ replies_needed[a] # {}
       /\ state[b] = STATE_RELEASED /\ round[b].held /\ replies_needed[b] = {}

\* the frames a node has sent (still on the network) and the frames its handler
\* threads have read, with the bound its clock keeps over their timestamp
SentBound(type, k) ==
    \A f \in net : f.type = type => logical_clock[f.from] >= f.ts + k

ReceivedBound ==
    \A h \in handlers : logical_clock[h.at] >= h.ts + 1

\* C11 as stated: the clock of a node is at least t + 1 after it has received
\* or sent a frame with timestamp t, REQUEST or REPLY.
C11_ClockBoundAll ==
    /\ ReceivedBound
    /\ SentBound("REQUEST", 1)
    /\ SentBound("REPLY", 1)

\* C11: Lamport clock bound: the clock of a node is at least t + 1 after it has
\* received a frame with timestamp t or sent a REQUEST with timestamp t, and at
\* least t after it has sent a REPLY with timestamp t (the REPLY carries the
\* clock value the send has just produced).
C11_ClockBound ==
    /\ ReceivedBound
    /\ SentBound("REQUEST", 1)
    /\ SentBound("REPLY", 0)

\* a node has just sent a REPLY stamped with its clock, and a handler of a
\* node whose clock was behind has read a frame
C11_Witness ==
    /\ \E f \in net : f.type = "REPLY" /\ logical_clock[f.from] = f.ts
    /\ \E h \in handlers : logical_clock[h.at] = h.ts + 1

\* C12 as stated: no peer is in replies_needed and in deferred_replies of a node
\* at the same time.
C12_NeverBoth ==
    \A n \in nodes : replies_needed[n] \cap deferred_replies[n] = {}

\* C12: a peer is in replies_needed and in deferred_replies of a node at the
\* same time only while the node is WANTED (it awaits the REPLY of a peer whose
\* REQUEST it has deferred); never while the node is HELD or RELEASED.
C12_BothOnlyWanted ==
    \A n \in nodes :
       replies_needed[n] \cap deferred_replies[n] # {} => state[n] = STATE_WANTED

\* a node whose request has priority has deferred the REQUEST of the peer whose
\* REPLY it awaits
C12_Witness ==
    \E n \in nodes, p \in nodes :
       /\ p \in replies_needed[n] \cap deferred_replies[n]
       /\ round[n].entry = STATE_RELEASED
       /\ round[p].req # None
       /\ ReqLess(our_request[n], round[p].req)
       /\ state[p] = STATE_WANTED

\* C13: every REQUEST a handler has taken its snapshot for ends in one of two
\* outcomes: the sender is added to deferred_replies when the snapshot says
\* HELD, or WANTED with the own request first; otherwise _send_message(sender,
\* "REPLY") runs (the clock ticks).  No REQUEST ends with neither.
C13_DeferOrReply ==
    [][\A h \in handlers :
          (h.type = "REQUEST" /\ h.step = "decide" /\ h \notin handlers') =>
             \/ /\ h.ms = STATE_HELD \/ (h.ms = STATE_WANTED /\ ReqLess(h.mr, <<h.ts, h.from>>))
                /\ h.from \in deferred_replies'[h.at]
                /\ UNCHANGED <<logical_clock, net>>
             \/ /\ ~(h.ms = STATE_HELD \/ (h.ms = STATE_WANTED /\ ReqLess(h.mr, <<h.ts, h.from>>)))
                /\ logical_clock'[h.at] = logical_clock[h.at] + 1
                /\ UNCHANGED deferred_replies]_vars

\* the current rounds of a and b carry the same timestamp (each request was
\* minted before the REQUEST of the other was read: a read REQUEST lifts the
\* clock above its timestamp), and a has the smaller id
Tie(a, b) ==
    /\ a < b
    /\ round[a].req # None /\ round[b].req # None
    /\ round[a].req[1] = round[b].req[1]

\* b never defers a
TieLoserReplies(a, b) ==
    /\ a \notin deferred_replies[b]
    /\ \A h \in handlers :
          (h.at = b /\ h.from = a /\ h.type = "REQUEST" /\ h.step = "decide")
             => ~ShouldDefer(h.ms, h.mr, <<h.ts, h.from>>)

\* b is not HELD before a has been HELD and has left HELD
TieWinnerFirst(a, b) ==
    (state[b] = STATE_HELD \/ round[b].held) =>
       (round[a].held /\ state[a] # STATE_HELD)

\* once the release_cs of a has returned, a holds no deferral of b any more:
\* the REPLY b waits for was sent by that release_cs
TieReleaseReplies(a, b) ==
    (round[a].held /\ state[a] = STATE_RELEASED /\ pc[a] = "prompt") =>
       /\ b \notin deferred_replies[a]
       /\ \A h \in handlers :
             (h.at = a /\ h.from = b /\ h.type = "REQUEST" /\ h.step = "decide")
                => ~ShouldDefer(h.ms, h.mr, <<h.ts, h.from>>)

\* C14: tie-break.  When a and b (a the smaller id) have minted the same
\* timestamp, b does not defer a, b is not HELD before a has been HELD and has
\* released, and a deferral of b's REQUEST by a is answered by the release_cs
\* of a: none is left once that release_cs has returned.
C14_TieBreak ==
    \A a \in nodes, b \in nodes :
       Tie(a, b) =>
          /\ TieLoserReplies(a, b)
          /\ TieWinnerFirst(a, b)
          /\ TieReleaseReplies(a, b)

\* scenario S2 at its end: a has posted once, its release_cs has returned, b
\* has never posted, no send failed, no CS body raised, and nothing is in flight
S2End(a, b) ==
    /\ a # b
    /\ posts[a] = MaxPosts - 1 /\ posts[b] = MaxPosts
    /\ round[a].held /\ state[a] = STATE_RELEASED /\ pc[a] = "prompt"
    /\ fails = 0 /\ raises = 0
    /\ net = {} /\ handlers = {}

\* C15 as stated: at the end of scenario S2, b has received exactly one REPLY
\* and its clock is at least 2.
C15_S2ReplyAtB ==
    \A a \in nodes, b \in nodes :
       S2End(a, b) => (tally[b].rep_in[a] = 1 /\ logical_clock[b] >= 2)

\* C15: two nodes without contention.  At the end of scenario S2 the request
\* of a was (1, a); b has read exactly one REQUEST, has sent exactly one REPLY
\* and has read no REPLY; a has read exactly one REPLY; the clock of b is 3.
C15_S2NoContention ==
    \A a \in nodes, b \in nodes :
       S2End(a, b) =>
          /\ round[a].req = <<1, a>>
          /\ tally[b].req_in[a] = 1
          /\ tally[b].rep_out[a] = 1
          /\ tally[b].rep_in[a] = 0
          /\ tally[a].rep_in[b] = 1
          /\ tally[a].req_in[b] = 0
          /\ logical_clock[b] = 3

\* scenario S2 has run to its end
C15_Witness == \E a \in nodes, b \in nodes : S2End(a, b)

\* C16: a handler that ends the handling of a REPLY leaves state, our_request
\* and deferred_replies of every node unchanged and takes the sender, and
\* nothing else, out of replies_needed of its node: replies_needed is left
\* unchanged when the sender is not in it (a stale REPLY).
C16_ReplyFrame ==
    [][\A h \in handlers :
          (h.type = "REPLY" /\ h \notin handlers') =>
             /\ UNCHANGED <<state, our_request, deferred_replies>>
             /\ replies_needed' =
                   [replies_needed EXCEPT ![h.at] = @ \ {h.from}]
             /\ h.from \notin replies_needed[h.at] => UNCHANGED replies_needed]_vars

\* a handler is about to handle a REPLY whose sender is not awaited
C16_Witness ==
    \E h \in handlers :
       /\ h.type = "REPLY"
       /\ h.from \notin replies_needed[h.at]

\* a step taken under the state lock (state is written), under the replies lock
\* (replies_needed is written) or under the deferred lock (deferred_replies is
\* written, or release_cs is inside its loop over it)
UnderLeafOrStateLock ==
    \/ state' # state
    \/ replies_needed' # replies_needed
    \/ deferred_replies' # deferred_replies
    \/ \E n \in nodes : DeferredLocked(n) /\ todo'[n] # todo[n]

\* C17: lock discipline: a thread that holds the state lock, the replies lock
\* or the deferred lock does not call _send_message: it does not take the clock
\* lock (no clock tick) and does not send (no new frame, no failed send).
C17_LockDiscipline ==
    [][UnderLeafOrStateLock => UNCHANGED <<logical_clock, net, fails>>]_vars

\* C18: no deferral outlives its round: when a node is RELEASED, its
\* release_cs has returned and none of its handler threads is running,
\* deferred_replies is empty.
C18_NoStaleDeferral ==
    \A n \in nodes :
       (/\ state[n] = STATE_RELEASED
        /\ pc[n] = "prompt"
        /\ \A h \in handlers : h.at # n)
       => deferred_replies[n] = {}

\* C19: fresh request timestamps: the request that request_cs mints is
\* (t, node_id) with t strictly greater than every timestamp the node has read
\* in a frame (REQUEST or REPLY), written into a frame, or minted before.
C19_FreshTimestamp ==
    [][\A n \in nodes :
          (pc[n] = "mint" /\ pc'[n] = "need") =>
             /\ our_request'[n][2] = n
             /\ our_request'[n][1] > tally[n].seen]_vars

\* a node has minted a second request after it had answered a REQUEST and read
\* a REPLY
C19_Witness ==
    \E n \in nodes, p \in nodes :
       /\ pc[n] = "need"
       /\ posts[n] <= MaxPosts - 2
       /\ tally[n].rep_out[p] > 0
       /\ tally[n].rep_in[p] > 0
       /\ our_request[n][1] > 1

\* a node has handed to _send_message no more REPLYs for a peer than it has
\* read REQUESTs from it, and the REPLYs to a peer that are in flight answer
\* different REQUESTs
OneReplyPerRequest ==
    /\ \A n \in nodes, p \in nodes : tally[n].rep_out[p] <= tally[n].req_in[p]
    /\ \A d \in history, e \in history :
          (d # e /\ d.f.from = e.f.from /\ d.f.to = e.f.to) => d.re \cap e.re = {}

\* a REPLY that takes its sender out of replies_needed was sent in answer to
\* the REQUEST of the current round of the node, and to that REQUEST only
AnswersCurrentRound ==
    \A h \in handlers :
       (h.type = "REPLY" /\ h \notin handlers' /\ h.from \in replies_needed[h.at]) =>
          \E e \in history :
             /\ e.f = Frame("REPLY", h.ts, h.from, h.at)
             /\ e.re = {our_request[h.at][1]}
             /\ our_request[h.at] = round[h.at].req

\* C20: replies are matched to rounds: a node sends a peer at most one REPLY
\* per REQUEST read from it, and every REPLY that removes a peer from
\* replies_needed answers the REQUEST of the current round, in whatever order
\* the frames are delivered.
C20_RepliesMatchRounds == []OneReplyPerRequest /\ [][AnswersCurrentRound]_vars

\* in its second round a node is about to take out of replies_needed a peer
\* whose REPLY was deferred and then sent by release_cs
C20_Witness ==
    \E h \in handlers :
       /\ h.type = "REPLY"
       /\ h.from \in replies_needed[h.at]
       /\ posts[h.at] <= MaxPosts - 2
       /\ drained[h.from][h.at] = 1
       /\ tally[h.from].rep_out[h.at] = 2

====
